---- MODULE Spec2Model ----
(***************************************************************************)
(* Model of tfx/experimental/pipeline_testing/pipeline_recorder_utils.py:  *)
(* record_pipeline and its helpers get_paths, get_execution_dict and       *)
(* get_latest_executions, over an MLMD metadata store and a file system.   *)
(*                                                                         *)
(* Text values that the code only compares (run ids, pipeline names, host, *)
(* error classes) are atomic strings.  Paths (output_dir, artifact uris,   *)
(* the custom properties joined into a destination) are sequences of       *)
(* one-character strings, so that os.path.join is computed as Python       *)
(* computes it.                                                            *)
(***************************************************************************)
EXTENDS Integers, Sequences, FiniteSets

VARIABLES
    output_dir,           \* argument: path
    metadata_db_uri,      \* argument: None or a uri
    host,                 \* argument: None or a host
    port,                 \* argument: None or a port
    pipeline_name,        \* argument: None or a pipeline name
    run_id,               \* argument: None or a run id
    store_executions,     \* store.get_executions(): list of [id, run_id]
    store_contexts,       \* pipeline-run contexts: list of [id, pipeline_name, last_update_time_since_epoch, execution_ids]
    store_events,         \* list of [execution_id, artifact_id, type]
    store_artifacts,      \* artifact id -> [uri, producer_component, name]
    exists,               \* file system: the paths for which tf.io.gfile.exists is true
    pc,                   \* position in record_pipeline
    metadata_config,      \* the connection config built on lines 118-124
    metadata_connection,  \* "unopened", "open" or "closed"
    queries,              \* the store calls made so far
    latest_context,       \* the local latest_context of get_latest_executions, or NoContext
    executions,           \* the local `executions`: list of execution records
    paths,                \* what the get_paths generator yields: list of [artifact, src_uri, dest_uri]
    idx,                  \* index in paths of the next pair the for loop takes
    made_dirs,            \* the os.makedirs calls, in order
    copied,               \* the io_utils.copy_dir calls, in order: [artifact, src_uri, dest_uri]
    raised                \* the exception record_pipeline ended with, or NoError

args == <<output_dir, metadata_db_uri, host, port, pipeline_name, run_id>>
store == <<store_executions, store_contexts, store_events, store_artifacts>>
locals == <<pc, metadata_config, metadata_connection, queries, latest_context,
            executions, paths, idx, made_dirs, copied, raised>>
vars == <<args, store, exists, locals>>

----------------------------------------------------------------------------
(* Bounds of the model *)

NumExec == 2      \* executions in the store
NumArt == 2       \* artifacts in the store
MaxEvents == 2    \* events in the store
NumCtx == 2       \* pipeline-run contexts in the store; timestamps range over 1..NumCtx

----------------------------------------------------------------------------
(* Values *)

None == "<None>"
NoError == "<no error>"
NoContext == [none |-> TRUE]

\* metadata_store_pb2.Event.Type: the two directions the glossary names
INPUT == "INPUT"
OUTPUT == "OUTPUT"
EventTypes == {INPUT, OUTPUT}

RunIds == {"r1", "r2"}
PipelineNames == {"p1", "p2"}

ExecutionIds == 1..NumExec
ArtifactIds == 1..NumArt

Digit == <<"1", "2", "3", "4", "5", "6", "7", "8", "9">>

sep == "/"

----------------------------------------------------------------------------
(* Pure helpers *)

\* one step of posixpath.join: path joined with the component b
JoinStep(path, b) ==
    IF Len(b) > 0 /\ b[1] = sep THEN b
    ELSE IF Len(path) = 0 \/ path[Len(path)] = sep THEN path \o b
    ELSE path \o <<sep>> \o b

\* os.path.join(a, b, c)
os_path_join(a, b, c) == JoinStep(JoinStep(a, b), c)

\* a filter that lets every event type through
IsOutputEvent_AnyType(x) == TRUE

\* line 49: the event filter of get_paths
IsOutputEvent(x) == x.type = OUTPUT

\* lines 46-50: events of the given executions that are OUTPUT events
get_paths_events(execs) ==
    LET ids == {execs[i].id : i \in 1..Len(execs)}
    IN  SelectSeq(store_events, LAMBDA x : x.execution_id \in ids /\ IsOutputEvent(x))

\* line 51: unique_artifact_ids
unique_artifact_ids(execs) ==
    LET events == get_paths_events(execs)
    IN  {events[i].artifact_id : i \in 1..Len(events)}

\* lines 55-60: the pair yielded for one artifact
get_paths_pair(a) ==
    [artifact |-> a,
     src_uri |-> store_artifacts[a].uri,
     dest_uri |-> os_path_join(output_dir,
                               store_artifacts[a].producer_component,
                               store_artifacts[a].name)]

\* the orders in which get_artifacts_by_id may return the artifacts of a set
Orders(S) ==
    {s \in [1..Cardinality(S) -> S] : \A i, j \in 1..Cardinality(S) : s[i] = s[j] => i = j}

\* the artifact ids of the events, one per event, never deduplicated
get_paths_artifact_lists_NoDedup(execs) ==
    LET events == get_paths_events(execs)
    IN  {[i \in 1..Len(events) |-> events[i].artifact_id]}

\* lines 51-54: the lists of artifact ids the loop may iterate over: the unique
\* ids, in any order the store returns their artifacts
get_paths_artifact_lists(execs) == Orders(unique_artifact_ids(execs))

\* a grouping that puts every execution under every run id
get_execution_dict_AnyRun(r) == store_executions

\* lines 72-76: execution_dict[r], the executions whose run_id property is r
get_execution_dict(r) ==
    SelectSeq(store_executions, LAMBDA e : e.run_id = r)

\* a membership test that the defaultdict always passes
InExecutionDict_Always(r) == TRUE

\* line 139: run_id in execution_dict
InExecutionDict(r) ==
    \E i \in 1..Len(store_executions) : store_executions[i].run_id = r

\* a filter that keeps the contexts of every pipeline
MatchesPipeline_Any(c, name) == TRUE

\* line 92: the context filter of get_latest_executions
MatchesPipeline(c, name) == c.pipeline_name = name

\* lines 89-93: pipeline_run_contexts
pipeline_run_contexts(name) ==
    SelectSeq(store_contexts, LAMBDA c : MatchesPipeline(c, name))

\* the first context of the list, whatever its time
MaxByTime_First(cs) == cs[1]

\* line 94: max(cs, key=last_update_time_since_epoch): the first maximal element
MaxByTime(cs) ==
    LET i == CHOOSE i \in 1..Len(cs) :
                 /\ \A j \in 1..Len(cs) :
                        cs[j].last_update_time_since_epoch <= cs[i].last_update_time_since_epoch
                 /\ \A j \in 1..(i - 1) :
                        cs[j].last_update_time_since_epoch < cs[i].last_update_time_since_epoch
    IN  cs[i]

\* line 95: store.get_executions_by_context(id)
get_executions_by_context(c) ==
    SelectSeq(store_executions, LAMBDA e : e.id \in c.execution_ids)

\* a test that accepts a host without a port, or a port without a host
ValidConnection_HostOrPort == host # None \/ port # None \/ metadata_db_uri # None

\* lines 118-122: the connection arguments name a store
ValidConnection == (host # None /\ port # None) \/ metadata_db_uri # None

----------------------------------------------------------------------------
(* The stores, arguments and file systems the calls are made with *)

BoundedSeq(S, n) == UNION {[1..k -> S] : k \in 0..n}

Min(a, b) == IF a < b THEN a ELSE b

Execution(i, r) == [id |-> i, run_id |-> r]

\* the list store.get_executions() returns, for an assignment of run ids
ExecutionList(runs) == [i \in ExecutionIds |-> Execution(i, runs[i])]

AllEvents == [execution_id : ExecutionIds, artifact_id : ArtifactIds, type : EventTypes]

EventKey(x) ==
    (x.execution_id * (NumArt + 1) + x.artifact_id) * 2 + (IF x.type = OUTPUT THEN 1 ELSE 0)

\* event lists of at most MaxEvents events, the same event possibly several
\* times, listed in key order
EventLists ==
    {s \in BoundedSeq(AllEvents, MaxEvents) :
        \A i, j \in 1..Len(s) : i < j => EventKey(s[i]) <= EventKey(s[j])}

DefaultUri(a) == <<sep, "u", Digit[a]>>
DefaultArtifact(a) ==
    [uri |-> DefaultUri(a), producer_component |-> <<"c">>, name |-> <<"n", Digit[a]>>]
DefaultArtifacts == [a \in ArtifactIds |-> DefaultArtifact(a)]
DefaultUris == {DefaultUri(a) : a \in ArtifactIds}

\* execution i has one OUTPUT event, on artifact min(i, NumArt)
DefaultEvents ==
    [i \in 1..Min(NumExec, MaxEvents) |->
        [execution_id |-> i, artifact_id |-> Min(i, NumArt), type |-> OUTPUT]]

AllContexts ==
    [pipeline_name : PipelineNames,
     last_update_time_since_epoch : 1..NumCtx,
     execution_ids : {{}} \cup {{e} : e \in ExecutionIds}]

\* the list get_contexts_by_type returns: context ids are the positions
ContextLists ==
    {[i \in 1..Len(s) |->
        [id |-> i,
         pipeline_name |-> s[i].pipeline_name,
         last_update_time_since_epoch |-> s[i].last_update_time_since_epoch,
         execution_ids |-> s[i].execution_ids]] : s \in BoundedSeq(AllContexts, NumCtx)}

DefaultContexts ==
    <<[id |-> 1, pipeline_name |-> "p1", last_update_time_since_epoch |-> 1,
       execution_ids |-> ExecutionIds]>>

\* producer_component and name custom properties: present, absent (the
\* protobuf default, the empty string) or starting with the separator
Components == {<<"c">>, <<>>, <<sep, "c">>}
Names == {<<"n">>, <<sep, "n">>}
CopiedUri == <<"o", sep, "c", sep, "n">>
Uris == {<<sep, "u">>, CopiedUri}
PathArtifacts ==
    [ArtifactIds -> [uri : Uris, producer_component : Components, name : Names]]
OutputDirs == {<<"o">>, <<"o", sep>>}

InitLocals ==
    /\ pc = "start"
    /\ metadata_config = None
    /\ metadata_connection = "unopened"
    /\ queries = {}
    /\ latest_context = NoContext
    /\ executions = <<>>
    /\ paths = <<>>
    /\ idx = 0
    /\ made_dirs = <<>>
    /\ copied = <<>>
    /\ raised = NoError

\* every combination of arguments, over one small store
InitArgs ==
    /\ output_dir = <<"o">>
    /\ metadata_db_uri \in {None, "db"}
    /\ host \in {None, "h"}
    /\ port \in {None, "8080"}
    /\ pipeline_name \in {None} \cup PipelineNames
    /\ run_id \in {None} \cup RunIds
    /\ store_executions = ExecutionList([i \in ExecutionIds |-> "r1"])
    /\ store_contexts = DefaultContexts
    /\ store_events = DefaultEvents
    /\ store_artifacts = DefaultArtifacts
    /\ exists \in {DefaultUris, {}}

\* recording by run id: every assignment of run ids, every event list, every
\* set of existing sources
InitRun ==
    /\ output_dir = <<"o">>
    /\ metadata_db_uri = "db"
    /\ host = None
    /\ port = None
    /\ pipeline_name = None
    /\ run_id \in RunIds
    /\ \E runs \in [ExecutionIds -> RunIds] : store_executions = ExecutionList(runs)
    /\ store_contexts = DefaultContexts
    /\ store_events \in EventLists
    /\ store_artifacts = DefaultArtifacts
    /\ exists \in SUBSET DefaultUris

\* recording the latest context: every list of contexts
InitLatest ==
    /\ output_dir = <<"o">>
    /\ metadata_db_uri = None
    /\ host = "h"
    /\ port = "8080"
    /\ pipeline_name \in PipelineNames
    /\ run_id = None
    /\ store_executions = ExecutionList([i \in ExecutionIds |-> "r1"])
    /\ store_contexts \in ContextLists
    /\ store_events = DefaultEvents
    /\ store_artifacts = DefaultArtifacts
    /\ exists = DefaultUris

\* destination paths: every artifact is an output of execution 1, with every
\* combination of uri, producer_component and name
InitPaths ==
    /\ output_dir \in OutputDirs
    /\ metadata_db_uri = "db"
    /\ host = None
    /\ port = None
    /\ pipeline_name = None
    /\ run_id = "r1"
    /\ store_executions = ExecutionList([i \in ExecutionIds |-> "r1"])
    /\ store_contexts = <<>>
    /\ store_events = [a \in 1..Min(NumArt, MaxEvents) |->
                          [execution_id |-> 1, artifact_id |-> a, type |-> OUTPUT]]
    /\ store_artifacts \in PathArtifacts
    /\ exists \in {{<<sep, "u">>}, {}}

Init ==
    /\ InitLocals
    /\ \/ InitArgs
       \/ InitRun
       \/ InitLatest
       \/ InitPaths

----------------------------------------------------------------------------
(* record_pipeline, statement by statement *)

\* an exception leaves record_pipeline; leaving the `with` block of line 129
\* closes the connection
Raise(e) ==
    /\ raised' = e
    /\ pc' = "done"
    /\ metadata_connection' = IF metadata_connection = "open" THEN "closed"
                              ELSE metadata_connection

\* lines 125-127: neither host and port nor metadata_db_uri is given
ConfigError ==
    /\ pc = "start"
    /\ ~ValidConnection
    /\ Raise("ValueError")
    /\ UNCHANGED <<args, store, exists, metadata_config, queries, latest_context,
                   executions, paths, idx, made_dirs, copied>>

\* lines 118-124 and 129: build the config and open the connection
Connect ==
    /\ pc = "start"
    /\ ValidConnection
    /\ metadata_config' = IF host # None /\ port # None THEN "grpc" ELSE "sqlite"
    /\ metadata_connection' = "open"
    /\ pc' = "connected"
    /\ UNCHANGED <<args, store, exists, queries, latest_context, executions, paths,
                   idx, made_dirs, copied, raised>>

\* the check of pipeline_name made only after the contexts were fetched
NoSelector_AfterQuery ==
    /\ pc = "connected"
    /\ run_id = None
    /\ pipeline_name = None
    /\ queries' = queries \cup {"get_contexts_by_type"}
    /\ Raise("ValueError")
    /\ UNCHANGED <<args, store, exists, metadata_config, latest_context, executions,
                   paths, idx, made_dirs, copied>>

\* lines 130-133: neither run_id nor pipeline_name is given
NoSelector ==
    /\ pc = "connected"
    /\ run_id = None
    /\ pipeline_name = None
    /\ Raise("ValueError")
    /\ UNCHANGED <<args, store, exists, metadata_config, queries, latest_context,
                   executions, paths, idx, made_dirs, copied>>

\* lines 135-136 with 89-95: the executions of the latest context
LatestExecutions ==
    /\ pc = "connected"
    /\ run_id = None
    /\ pipeline_name # None
    /\ Len(pipeline_run_contexts(pipeline_name)) > 0
    /\ queries' = queries \cup {"get_contexts_by_type", "get_executions_by_context"}
    /\ latest_context' = MaxByTime(pipeline_run_contexts(pipeline_name))
    /\ executions' = get_executions_by_context(latest_context')
    /\ pc' = "selected"
    /\ UNCHANGED <<args, store, exists, metadata_config, metadata_connection, paths,
                   idx, made_dirs, copied, raised>>

\* line 94: max() of an empty list raises ValueError
LatestEmpty ==
    /\ pc = "connected"
    /\ run_id = None
    /\ pipeline_name # None
    /\ Len(pipeline_run_contexts(pipeline_name)) = 0
    /\ queries' = queries \cup {"get_contexts_by_type"}
    /\ Raise("ValueError")
    /\ UNCHANGED <<args, store, exists, metadata_config, latest_context, executions,
                   paths, idx, made_dirs, copied>>

\* lines 138-140: the executions recorded under run_id
ExecutionsByRunId ==
    /\ pc = "connected"
    /\ run_id # None
    /\ InExecutionDict(run_id)
    /\ queries' = queries \cup {"get_executions"}
    /\ executions' = get_execution_dict(run_id)
    /\ pc' = "selected"
    /\ UNCHANGED <<args, store, exists, metadata_config, metadata_connection,
                   latest_context, paths, idx, made_dirs, copied, raised>>

\* lines 141-143: run_id is not a key of execution_dict
RunIdNotRecorded ==
    /\ pc = "connected"
    /\ run_id # None
    /\ ~InExecutionDict(run_id)
    /\ queries' = queries \cup {"get_executions"}
    /\ Raise("ValueError")
    /\ UNCHANGED <<args, store, exists, metadata_config, latest_context, executions,
                   paths, idx, made_dirs, copied>>

\* lines 144-145 with 46-60: the generator's queries and the pairs it will yield,
\* in the order get_artifacts_by_id returns the artifacts
GetPaths ==
    /\ pc = "selected"
    /\ queries' = queries \cup {"get_events_by_execution_ids", "get_artifacts_by_id"}
    /\ \E order \in get_paths_artifact_lists(executions) :
           paths' = [i \in 1..Len(order) |-> get_paths_pair(order[i])]
    /\ idx' = 1
    /\ pc' = "copying"
    /\ UNCHANGED <<args, store, exists, metadata_config, metadata_connection,
                   latest_context, executions, made_dirs, copied, raised>>

\* lines 146-149: the source exists: make the destination and copy into it
CopyArtifact ==
    /\ pc = "copying"
    /\ idx <= Len(paths)
    /\ paths[idx].src_uri \in exists
    /\ made_dirs' = Append(made_dirs, paths[idx].dest_uri)
    /\ copied' = Append(copied, paths[idx])
    /\ exists' = exists \cup {paths[idx].dest_uri}
    /\ idx' = idx + 1
    /\ UNCHANGED <<args, store, pc, metadata_config, metadata_connection, queries,
                   latest_context, executions, paths, raised>>

\* the existence test made only after the destination directory was created
SourceMissing_AfterMakedirs ==
    /\ pc = "copying"
    /\ idx <= Len(paths)
    /\ paths[idx].src_uri \notin exists
    /\ made_dirs' = Append(made_dirs, paths[idx].dest_uri)
    /\ exists' = exists \cup {paths[idx].dest_uri}
    /\ Raise("FileNotFoundError")
    /\ UNCHANGED <<args, store, metadata_config, queries, latest_context, executions,
                   paths, idx, copied>>

\* lines 146-147: the source does not exist
SourceMissing ==
    /\ pc = "copying"
    /\ idx <= Len(paths)
    /\ paths[idx].src_uri \notin exists
    /\ Raise("FileNotFoundError")
    /\ UNCHANGED <<args, store, exists, metadata_config, queries, latest_context,
                   executions, paths, idx, made_dirs, copied>>

\* line 150: the generator is exhausted; the `with` block ends
Finish ==
    /\ pc = "copying"
    /\ idx > Len(paths)
    /\ pc' = "done"
    /\ metadata_connection' = "closed"
    /\ UNCHANGED <<args, store, exists, metadata_config, queries, latest_context,
                   executions, paths, idx, made_dirs, copied, raised>>

Next ==
    \/ ConfigError
    \/ Connect
    \/ NoSelector
    \/ LatestExecutions
    \/ LatestEmpty
    \/ ExecutionsByRunId
    \/ RunIdNotRecorded
    \/ GetPaths
    \/ CopyArtifact
    \/ SourceMissing
    \/ Finish

Spec == Init /\ [][Next]_vars

----------------------------------------------------------------------------
(* What the claims speak about, stated on the store itself *)

CopiedArtifacts == {copied[i].artifact : i \in 1..Len(copied)}
YieldedArtifacts == {paths[i].artifact : i \in 1..Len(paths)}
SelectedIds == {executions[i].id : i \in 1..Len(executions)}

\* the ids of the executions whose run_id property is r
ExecutionsOfRun(r) ==
    {store_executions[i].id : i \in {j \in 1..Len(store_executions) :
                                        store_executions[j].run_id = r}}

\* artifact a has an event of type t on an execution of E
HasEvent(a, t, E) ==
    \E i \in 1..Len(store_events) :
        /\ store_events[i].artifact_id = a
        /\ store_events[i].type = t
        /\ store_events[i].execution_id \in E

\* the artifacts with an OUTPUT event on an execution of run r
OutputsOfRun(r) == {a \in ArtifactIds : HasEvent(a, OUTPUT, ExecutionsOfRun(r))}

\* the number of OUTPUT events of the selected executions on artifact a
OutputEventCount(a) ==
    Cardinality({i \in 1..Len(store_events) :
                    /\ store_events[i].artifact_id = a
                    /\ store_events[i].type = OUTPUT
                    /\ store_events[i].execution_id \in SelectedIds})

IsPrefix(p, q) == Len(p) <= Len(q) /\ SubSeq(q, 1, Len(p)) = p
IsSuffix(p, q) == Len(p) <= Len(q) /\ SubSeq(q, Len(q) - Len(p) + 1, Len(q)) = p

NothingCopied == copied = <<>> /\ made_dirs = <<>>

----------------------------------------------------------------------------
(* The claims *)

\* C1: a call with a valid store configuration and a recorded run_id, every
\* selected source existing, ends without error having copied exactly the
\* artifacts with an OUTPUT event on an execution of that run_id.
C1_CopiesExactlyRunOutputs ==
    ( /\ pc = "done"
      /\ ValidConnection
      /\ run_id # None
      /\ ExecutionsOfRun(run_id) # {}
      /\ \A a \in OutputsOfRun(run_id) : store_artifacts[a].uri \in exists )
    => /\ raised = NoError
       /\ CopiedArtifacts = OutputsOfRun(run_id)

\* C1 witness: a finished recording by run id that copied an artifact and left
\* out an artifact that only another run's execution has as OUTPUT.
C1_Witness ==
    /\ pc = "done"
    /\ raised = NoError
    /\ run_id # None
    /\ CopiedArtifacts # {}
    /\ \E a \in ArtifactIds \ CopiedArtifacts :
           HasEvent(a, OUTPUT, ExecutionIds \ ExecutionsOfRun(run_id))

\* C2: with run_id None and a pipeline_name, the executions recorded are those
\* of one pipeline-run context of that pipeline_name whose update time is at
\* least that of every other context of that pipeline_name.
C2_LatestContextOfPipeline ==
    (run_id = None /\ "get_executions_by_context" \in queries)
    => /\ \E i \in 1..Len(store_contexts) : latest_context = store_contexts[i]
       /\ latest_context.pipeline_name = pipeline_name
       /\ \A j \in 1..Len(store_contexts) :
              store_contexts[j].pipeline_name = pipeline_name
              => store_contexts[j].last_update_time_since_epoch
                     <= latest_context.last_update_time_since_epoch
       /\ SelectedIds = latest_context.execution_ids
       /\ YieldedArtifacts \subseteq {a \in ArtifactIds : HasEvent(a, OUTPUT, latest_context.execution_ids)}

\* C2 witness: the context of the pipeline was recorded while a context of
\* another pipeline, holding another execution, was updated more recently.
C2_Witness ==
    /\ pc = "done"
    /\ run_id = None
    /\ latest_context # NoContext
    /\ copied # <<>>
    /\ \E j \in 1..Len(store_contexts) :
           /\ store_contexts[j].pipeline_name # pipeline_name
           /\ store_contexts[j].last_update_time_since_epoch
                  > latest_context.last_update_time_since_epoch
           /\ store_contexts[j].execution_ids \notin {{}, latest_context.execution_ids}

\* C3: every artifact get_paths yields, and every artifact copied, has an
\* OUTPUT event on a selected execution; events of another type select nothing.
C3_OnlyOutputEventsSelect ==
    \A a \in YieldedArtifacts \cup CopiedArtifacts : HasEvent(a, OUTPUT, SelectedIds)

\* C3 witness: a finished recording that copied something and left out an
\* artifact that a selected execution has only as INPUT.
C3_Witness ==
    /\ pc = "done"
    /\ raised = NoError
    /\ copied # <<>>
    /\ \E a \in ArtifactIds \ CopiedArtifacts :
           /\ HasEvent(a, INPUT, SelectedIds)
           /\ ~HasEvent(a, OUTPUT, SelectedIds)

\* C4: every pair get_paths yields has the artifact's uri as source and a
\* destination that lies under output_dir and ends with
\* <producer_component>/<name>.
C4_DestUnderOutputDir ==
    \A i \in 1..Len(paths) :
        LET a == store_artifacts[paths[i].artifact]
        IN  /\ paths[i].src_uri = a.uri
            /\ IsPrefix(output_dir, paths[i].dest_uri)
            /\ IsSuffix(a.producer_component \o <<sep>> \o a.name, paths[i].dest_uri)

C6_NoSelectorRaises ==
    (ValidConnection /\ run_id = None /\ pipeline_name = None)
    => /\ pc \in {"start", "connected", "done"}
       /\ pc = "done" => raised = "ValueError"
       /\ queries = {}
       /\ NothingCopied

\* C6 witness: such a call opened the connection, raised and closed it.
C6_Witness ==
    /\ pc = "done"
    /\ raised = "ValueError"
    /\ metadata_connection = "closed"
    /\ run_id = None
    /\ pipeline_name = None

\* C7: with a run_id that no execution has as its run_id property, the call
\* ends in ValueError and copies nothing, whatever pipeline_name is; the
\* contexts are never queried and no execution is selected.
C7_UnrecordedRunIdRaises ==
    (ValidConnection /\ run_id # None /\ ExecutionsOfRun(run_id) = {})
    => /\ pc \in {"start", "connected", "done"}
       /\ pc = "done" => raised = "ValueError"
       /\ NothingCopied
       /\ executions = <<>>
       /\ latest_context = NoContext
       /\ queries \subseteq {"get_executions"}

\* C7 witness: an unrecorded run_id given together with the name of a pipeline
\* that has a context with executions: the call has raised.
C7_Witness ==
    /\ pc = "done"
    /\ raised = "ValueError"
    /\ run_id # None
    /\ ExecutionsOfRun(run_id) = {}
    /\ pipeline_name # None
    /\ \E j \in 1..Len(store_contexts) :
           /\ store_contexts[j].pipeline_name = pipeline_name
           /\ store_contexts[j].execution_ids # {}

\* C8: a call that ended in FileNotFoundError stopped at the first yielded
\* artifact whose source does not exist: the artifacts before it were copied,
\* in order, and their copies are in place; no directory was made and no copy
\* performed for it or for any artifact after it.
C8_StopsAtFirstMissingSource ==
    raised = "FileNotFoundError"
    => /\ pc = "done"
       /\ idx \in 1..Len(paths)
       /\ paths[idx].src_uri \notin exists
       /\ copied = SubSeq(paths, 1, idx - 1)
       /\ made_dirs = [i \in 1..(idx - 1) |-> paths[i].dest_uri]
       /\ \A i \in 1..(idx - 1) : paths[i].dest_uri \in exists

\* C8 witness: the second artifact's source is missing after the first was
\* copied.
C8_Witness ==
    /\ raised = "FileNotFoundError"
    /\ idx = 2
    /\ Len(copied) = 1
    /\ copied[1].dest_uri \in exists

\* C9: no artifact is yielded twice by get_paths, and no artifact is copied
\* twice, however many OUTPUT events of the selected executions refer to it.
C9_EachArtifactOnce ==
    /\ \A i, j \in 1..Len(paths) : paths[i].artifact = paths[j].artifact => i = j
    /\ \A i, j \in 1..Len(copied) : copied[i].artifact = copied[j].artifact => i = j
    /\ Len(made_dirs) = Len(copied)

\* C9 witness: a finished recording copied an artifact that two OUTPUT events
\* of the selected executions refer to.
C9_Witness ==
    /\ pc = "done"
    /\ raised = NoError
    /\ \E a \in CopiedArtifacts : OutputEventCount(a) >= 2

\* C10: with run_id None and a pipeline_name that no pipeline-run context has,
\* the call ends in an error and copies nothing; no context and no execution
\* is selected.
C10_NoContextOfPipelineRaises ==
    ( /\ ValidConnection
      /\ run_id = None
      /\ pipeline_name # None
      /\ \A j \in 1..Len(store_contexts) : store_contexts[j].pipeline_name # pipeline_name )
    => /\ pc \in {"start", "connected", "done"}
       /\ pc = "done" => raised # NoError
       /\ NothingCopied
       /\ latest_context = NoContext
       /\ executions = <<>>

\* C10 witness: the store holds only a context of another pipeline, with an
\* execution, and the call has ended in an error.
C10_Witness ==
    /\ pc = "done"
    /\ raised = "ValueError"
    /\ run_id = None
    /\ pipeline_name # None
    /\ store_contexts # <<>>
    /\ \A j \in 1..Len(store_contexts) :
           /\ store_contexts[j].pipeline_name # pipeline_name
           /\ store_contexts[j].execution_ids # {}

====
